---- MODULE Spec2Model ----
(***************************************************************************)
(* Model of src/app.py: the Bulk PageSpeed tester.                         *)
(*                                                                         *)
(*   call_pagespeed    one GET to the PageSpeed API (lines 29-33)          *)
(*   run_with_backoff  the retry loop around it (lines 35-60)              *)
(*   the batch loop    urls x devices, one row per pair (lines 71-80)      *)
(*                                                                         *)
(* Python values are tagged records, so that None, an int, a str and a     *)
(* dict stay different values:                                             *)
(*   [t |-> "null"]                     None / JSON null                   *)
(*   [t |-> "num", num |-> n, den |-> d] the number n/d (d > 0)            *)
(*   [t |-> "int", n |-> k]             a Python int produced by round()   *)
(*   [t |-> "str", s |-> "..."]         a str                              *)
(*   [t |-> "obj", f |-> [key |-> v]]   a dict / JSON object               *)
(*   [t |-> "list"]                     a JSON array (any non-dict, truthy)*)
(*   [t |-> "msg", prefix, code, exc]   an f-string of lines 57 / 60       *)
(* Durations are counted in half seconds, so 1.5 s is 3.                   *)
(***************************************************************************)
EXTENDS Integers, Sequences, FiniteSets, TLC

VARIABLES
    stub,         \* the responses the PageSpeed API may give in this run
    urls,         \* line 67: the validated, de-duplicated URL list
    devices,      \* line 16: the multiselect, in selection order
    max_retries,  \* line 20
    delay,        \* line 18, in half seconds
    pc,           \* position of the script
    i,            \* line 73: index of the url of the outer loop (1-based)
    di,           \* line 75: index of the device of the inner loop (1-based)
    rows,         \* line 72: the result collection
    attempt,      \* line 36
    wait,         \* line 36, in half seconds
    ret,          \* the value run_with_backoff returned, before line 76 appends it
    calls,        \* history: client calls made by the current invocation
    sleeps,       \* history: time.sleep(wait) durations of the current invocation
    hist,         \* history: the responses the current invocation received
    pauses,       \* history: the time.sleep(delay) durations of line 77
    raw           \* line 63: the lines of the uploaded file

vars == <<stub, urls, devices, max_retries, delay, pc, i, di, rows,
          attempt, wait, ret, calls, sleeps, hist, pauses, raw>>

(***************************************************************************)
(* Bounds of the model.                                                    *)
(***************************************************************************)
MaxUrls == 2
MaxRetries == 3
MaxDelay == 1
MaxLines == 3

(***************************************************************************)
(* Python values.                                                          *)
(***************************************************************************)
None == [t |-> "null"]
Num(n, d) == [t |-> "num", num |-> n, den |-> d]
PyInt(k) == [t |-> "int", n |-> k]
Str(s) == [t |-> "str", s |-> s]
Obj(f) == [t |-> "obj", f |-> f]
EmptyDict == Obj([k \in {} |-> None])
JsonList == [t |-> "list"]
Raise(e) == [t |-> "raise", exc |-> e, code |-> 0]
RaiseHTTP(code) == [t |-> "raise", exc |-> "HTTPError", code |-> code]
Ok(v) == [t |-> "ok", v |-> v]
IsRaise(v) == v.t = "raise"

\* Python truthiness, as used by `x or {}` on lines 40-42.
Truthy(v) ==
    CASE v.t = "null" -> FALSE
      [] v.t = "obj"  -> DOMAIN v.f # {}
      [] v.t = "str"  -> v.s # ""
      [] v.t = "num"  -> v.num # 0
      [] OTHER        -> TRUE

\* `x or {}`
OrEmpty(v) == IF Truthy(v) THEN v ELSE EmptyDict

\* o.get(k, dflt): AttributeError when o is not a dict.
Get(o, k, dflt) ==
    IF o.t # "obj" THEN Raise("AttributeError")
    ELSE IF k \in DOMAIN o.f THEN o.f[k] ELSE dflt

\* round(q) of the rational n/d, d > 0: Python 3 rounds halves to even.
Round(n, d) ==
    LET q == n \div d
        r == n % d
    IN  IF 2 * r < d THEN q
        ELSE IF 2 * r > d THEN q + 1
        ELSE IF q % 2 = 0 THEN q ELSE q + 1

\* Line 44: perf = round(perf * 100) if perf is not None else None.
\* A str or a list times 100 is a str or a list, which round() rejects; a dict
\* times 100 is rejected at once: TypeError either way.
PerfNoRound(perf) ==
    IF perf.t = "null" THEN None
    ELSE IF perf.t = "num" THEN Num(perf.num * 100, perf.den)
    ELSE Raise("TypeError")

PerfTimesThousand(perf) ==
    IF perf.t = "null" THEN None
    ELSE IF perf.t = "num" THEN PyInt(Round(perf.num * 1000, perf.den))
    ELSE Raise("TypeError")

PerfIfTruthy(perf) ==
    IF ~Truthy(perf) THEN None
    ELSE IF perf.t = "num" THEN PyInt(Round(perf.num * 100, perf.den))
    ELSE Raise("TypeError")

PerfScore(perf) ==
    IF perf.t = "null" THEN None
    ELSE IF perf.t = "num" THEN PyInt(Round(perf.num * 100, perf.den))
    ELSE Raise("TypeError")

(***************************************************************************)
(* Responses of the PageSpeed API.  A response is an HTTP response (status *)
(* and body) or a transport failure raised by requests.get.  A body is a   *)
(* decoded JSON value or [t |-> "undecodable"].                            *)
(***************************************************************************)
Http(status, body) == [kind |-> "http", status |-> status, body |-> body, exc |-> ""]
Transport(e) == [kind |-> "transport", status |-> 0, body |-> None, exc |-> e]
Undecodable == [t |-> "undecodable"]

FCP == "first-contentful-paint"
LCP == "largest-contentful-paint"
TBT == "total-blocking-time"
CLS == "cumulative-layout-shift"

Display(s) == Obj([displayValue |-> Str(s)])
AuditsFull == Obj((FCP :> Display("1.2 s")) @@ (LCP :> Display("2.5 s"))
                  @@ (TBT :> Display("150 ms")) @@ (CLS :> Display("0.01")))
WithScore(score, audits) ==
    Obj([lighthouseResult |->
           Obj([categories |-> Obj([performance |-> Obj([score |-> score])]),
                audits |-> audits])])

BodyFull == WithScore(Num(87, 100), AuditsFull)
BodyZero == WithScore(Num(0, 1), AuditsFull)
BodyHalf == WithScore(Num(1, 8), AuditsFull)
BodyOver == WithScore(Num(3, 2), AuditsFull)
BodyScoreNull == WithScore(None, AuditsFull)
BodyScoreStr == WithScore(Str("0.9"), AuditsFull)
BodyNoScore ==
    Obj([lighthouseResult |->
           Obj([categories |-> Obj([performance |-> EmptyDict]),
                audits |-> AuditsFull])])
BodyPerfNull ==
    Obj([lighthouseResult |->
           Obj([categories |-> Obj([performance |-> None]),
                audits |-> AuditsFull])])
BodyLhNull == Obj([lighthouseResult |-> None])
BodyAuditNull ==
    WithScore(Num(1, 1), Obj((FCP :> None) @@ (LCP :> Display("2.5 s"))))
BodyDisplayNull ==
    WithScore(Num(1, 2), Obj((FCP :> Obj([displayValue |-> None]))
                             @@ (LCP :> EmptyDict)))
BodyError == Obj([error |-> Obj([message |-> Str("failed")])])

Bodies ==
    { BodyFull, BodyZero, BodyHalf, BodyOver, BodyScoreNull, BodyScoreStr,
      BodyNoScore, BodyPerfNull, BodyLhNull, BodyAuditNull, BodyDisplayNull,
      EmptyDict, JsonList, None, Undecodable }

TransientCodes == {429, 500, 502, 503, 504}
PermanentCodes == {400, 404, 408, 501, 505}

\* The responses of a batch run: one of each class.
CoarseResponses ==
    { Http(200, BodyFull), Http(503, BodyError), Http(404, BodyError),
      Transport("ConnectionError") }

\* The responses of a single Task: every status class and every body shape.
RichResponses ==
    { Http(200, b) : b \in Bodies }
      \cup { Http(204, Undecodable), Http(300, BodyFull), Http(300, Undecodable),
             Http(304, Undecodable) }
      \cup { Http(s, BodyError) : s \in TransientCodes \cup PermanentCodes }
      \cup { Transport("ConnectionError"), Transport("Timeout") }

\* The responses of a single Task under fairness: every body shape, one status
\* of each class.
BodyResponses ==
    { Http(200, b) : b \in Bodies }
      \cup { Http(300, BodyFull), Http(503, BodyError), Http(404, BodyError),
             Transport("ConnectionError"), Transport("Timeout") }

(***************************************************************************)
(* call_pagespeed, lines 29-33.                                            *)
(***************************************************************************)
\* Line 32: Response.raise_for_status() raises HTTPError for 4xx and 5xx only.
RaisesFor5xxOnly(status) == 500 <= status /\ status < 600

RaisesForStatus(status) == 400 <= status /\ status < 600

call_pagespeed(r) ==
    IF r.kind = "transport" THEN Raise(r.exc)
    ELSE IF RaisesForStatus(r.status) THEN RaiseHTTP(r.status)
    ELSE IF r.body.t = "undecodable" THEN Raise("JSONDecodeError")
    ELSE Ok(r.body)

(***************************************************************************)
(* run_with_backoff, lines 35-60.                                          *)
(***************************************************************************)
WaitInit == 3

\* A row of the result collection, lines 45-51 / 56-57 / 59-60.
Row(url, device, perf, fcp, lcp, tbt, cls) ==
    ("URL" :> Str(url)) @@ ("Device" :> Str(device))
      @@ ("Performance Score" :> perf)
      @@ ("FCP" :> fcp) @@ ("LCP" :> lcp) @@ ("TBT" :> tbt) @@ ("CLS" :> cls)

\* f"HTTP {code}: {e}" and f"Request failed: {e}"
Msg(prefix, code, exc) == [t |-> "msg", prefix |-> prefix, code |-> code, exc |-> exc]

\* audits.get(name, {}).get("displayValue", ""), lines 47-50
Audit(audits, name) ==
    LET a == Get(audits, name, EmptyDict)
    IN  IF IsRaise(a) THEN a ELSE Get(a, "displayValue", Str(""))

\* Lines 40-51: the body of the try block after the client call returned data.
\* The result is Ok(row) or the exception the first failing line raises.
ParseData(url, device, data) ==
    LET lh0 == Get(data, "lighthouseResult", EmptyDict)
    IN  IF IsRaise(lh0) THEN lh0 ELSE
    LET lh == OrEmpty(lh0)
        cats0 == Get(lh, "categories", EmptyDict)
    IN  IF IsRaise(cats0) THEN cats0 ELSE
    LET cats == OrEmpty(cats0)
        audits == OrEmpty(Get(lh, "audits", EmptyDict))
        p == Get(cats, "performance", EmptyDict)
    IN  IF IsRaise(p) THEN p ELSE
    LET perf0 == Get(p, "score", None)
    IN  IF IsRaise(perf0) THEN perf0 ELSE
    LET perf == PerfScore(perf0)
    IN  IF IsRaise(perf) THEN perf ELSE
    LET fcp == Audit(audits, FCP)
    IN  IF IsRaise(fcp) THEN fcp ELSE
    LET lcp == Audit(audits, LCP)
    IN  IF IsRaise(lcp) THEN lcp ELSE
    LET tbt == Audit(audits, TBT)
    IN  IF IsRaise(tbt) THEN tbt ELSE
    LET cls == Audit(audits, CLS)
    IN  IF IsRaise(cls) THEN cls ELSE
        Ok(Row(url, device, perf, fcp, lcp, tbt, cls))

\* Lines 38-51: the try block on response r.
TryBlock(url, device, r) ==
    LET data == call_pagespeed(r)
    IN  IF IsRaise(data) THEN data ELSE ParseData(url, device, data.v)

\* The exception classes the try block can raise.
RequestExceptions == {"HTTPError", "ConnectionError", "Timeout", "JSONDecodeError"}
ExceptionClasses == RequestExceptions \cup {"AttributeError", "TypeError"}

\* Line 52: except requests.HTTPError
ExceptHTTPError(e) == e = "HTTPError"

\* Line 58: except Exception
ExceptRequestException(e) == e \in RequestExceptions

ExceptException(e) == e \in ExceptionClasses

\* Line 54: code in (429, 500, 502, 503, 504) and attempt < retries
RetryWhileAtMost(code, att, retries) ==
    code \in {429, 500, 502, 503, 504} /\ att <= retries

RetryOn5xxOnly(code, att, retries) ==
    code \in {500, 502, 503, 504} /\ att < retries

RetryAnyServerError(code, att, retries) ==
    code >= 429 /\ att < retries

ShouldRetry(code, att, retries) ==
    code \in {429, 500, 502, 503, 504} /\ att < retries

\* Line 55: wait *= 2
WaitPlusInit(w) == w + WaitInit

NextWait(w) == w * 2

\* Lines 56-57
HTTPErrorRow(url, device, code) ==
    Row(url, device, Str("Error"), Msg("HTTP", code, "HTTPError"),
        Str(""), Str(""), Str(""))

\* Lines 59-60
RequestFailedAsHTTP(url, device, e) ==
    Row(url, device, Str("Error"), Msg("HTTP", 0, e), Str(""), Str(""), Str(""))

RequestFailedRow(url, device, e) ==
    Row(url, device, Str("Error"), Msg("Request failed", 0, e),
        Str(""), Str(""), Str(""))

(***************************************************************************)
(* The URL list, lines 22-27 and 63-67.  A str is a TLA+ string; Ch(s, k)  *)
(* is its k-th character.                                                  *)
(***************************************************************************)
Ch(s, k) == SubSeq(s, k, k)
From(s, k) == SubSeq(s, k, Len(s))
Range(seq) == { seq[k] : k \in DOMAIN seq }
Whitespace == {" ", "\t"}

\* str.strip()
RECURSIVE lstrip(_), rstrip(_)
lstrip(s) == IF s # "" /\ Ch(s, 1) \in Whitespace THEN lstrip(From(s, 2)) ELSE s
rstrip(s) ==
    IF s # "" /\ Ch(s, Len(s)) \in Whitespace
    THEN rstrip(SubSeq(s, 1, Len(s) - 1)) ELSE s
strip(s) == rstrip(lstrip(s))

\* str.startswith(p)
startswith(s, p) == Len(s) >= Len(p) /\ SubSeq(s, 1, Len(p)) = p

\* s.find(c) for a set of characters, 1-based from position k; 0 when absent.
Find(s, cs, k) ==
    LET hits == { n \in k..Len(s) : Ch(s, n) \in cs }
    IN  IF hits = {} THEN 0 ELSE CHOOSE n \in hits : \A m \in hits : n <= m

\* str.lower(), on the letters the model's lines use.
LowerCh(c) ==
    CASE c = "H" -> "h" [] c = "T" -> "t" [] c = "P" -> "p" [] c = "S" -> "s"
      [] c = "F" -> "f" [] c = "A" -> "a" [] OTHER -> c
RECURSIVE lower(_)
lower(s) == IF s = "" THEN "" ELSE LowerCh(Ch(s, 1)) \o lower(From(s, 2))

Alpha ==
    { "a", "b", "c", "d", "e", "f", "g", "h", "i", "j", "k", "l", "m", "n", "o",
      "p", "q", "r", "s", "t", "u", "v", "w", "x", "y", "z",
      "H", "T", "P", "S", "F", "A" }
SchemeChars == Alpha \cup {"0", "1", "2", "3", "4", "5", "6", "7", "8", "9", "+", "-", "."}

\* urllib.parse.urlparse(u), line 24: the scheme and the netloc of u, or
\* ValueError for a netloc with an unmatched bracket.
urlparse(u) ==
    LET c == Find(u, {":"}, 1)
        hasScheme == /\ c > 1 /\ Ch(u, 1) \in Alpha
                     /\ \A n \in 1..(c - 1) : Ch(u, n) \in SchemeChars
        scheme == IF hasScheme THEN lower(SubSeq(u, 1, c - 1)) ELSE ""
        rest == IF hasScheme THEN From(u, c + 1) ELSE u
        hasNetloc == startswith(rest, "//")
        delim == Find(rest, {"/", "?", "#"}, 3)
        netloc == IF ~hasNetloc THEN ""
                  ELSE IF delim = 0 THEN From(rest, 3)
                  ELSE SubSeq(rest, 3, delim - 1)
        open == Find(netloc, {"["}, 1) > 0
        close == Find(netloc, {"]"}, 1) > 0
    IN  IF open # close THEN Raise("ValueError")
        ELSE [t |-> "ok", scheme |-> scheme, netloc |-> netloc]

\* Lines 22-27
is_valid_url(u) ==
    LET p == urlparse(u)
    IN  IF IsRaise(p) THEN FALSE
        ELSE p.scheme \in {"http", "https"} /\ p.netloc # ""

\* Line 64: [u.strip() for u in raw if u.strip()]
StripLines(lines) ==
    SelectSeq([k \in DOMAIN lines |-> strip(lines[k])], LAMBDA u : u # "")

\* Line 65: prepend https:// unless the line starts with http:// or https://
AlwaysAddScheme(u) == "https://" \o u

AddScheme(u) ==
    IF startswith(u, "http://") \/ startswith(u, "https://") THEN u
    ELSE "https://" \o u

\* Line 66: list(dict.fromkeys(urls)), first occurrences in order
RECURSIVE Dedupe(_)
Dedupe(seq) ==
    IF seq = <<>> THEN <<>>
    ELSE LET d == Dedupe(SubSeq(seq, 1, Len(seq) - 1))
             u == seq[Len(seq)]
         IN  IF u \in Range(d) THEN d ELSE Append(d, u)

\* Lines 64-67 with the duplicates removed before the scheme is prepended.
NormalizeDedupeFirst(lines) ==
    LET deduped == Dedupe(StripLines(lines))
        prefixed == [k \in DOMAIN deduped |-> AddScheme(deduped[k])]
    IN  SelectSeq(prefixed, is_valid_url)

\* Lines 64-67
Normalize(lines) ==
    LET stripped == StripLines(lines)
        prefixed == [k \in DOMAIN stripped |-> AddScheme(stripped[k])]
    IN  SelectSeq(Dedupe(prefixed), is_valid_url)

\* The lines of an uploaded file.
LinePool ==
    { "a.com", "https://a.com", " a.com ", "", "  ", "http://a.com",
      "ftp://x.com", "not a url", "https://valid.com", "https://", "/p",
      "\thttps://[x" }
LineLists == UNION { [1..n -> LinePool] : n \in 0..MaxLines }

(***************************************************************************)
(* The script.  pc is                                                      *)
(*   "upload"  a file is uploaded, lines 63-67 are about to run            *)
(*   "loaded"  lines 63-67 ran on the file                                 *)
(*   "reupload" the list of line 67 is uploaded as the next file           *)
(*   "reloaded" lines 63-67 ran on that file                               *)
(*   "idle"    the page is rendered, Run Test not yet clicked (line 71)    *)
(*   "loop"    at the head of the loops of lines 73 / 75                   *)
(*   "call"    in run_with_backoff, at the head of `while True` (line 37)  *)
(*   "ret"     run_with_backoff returned, line 76 is about to append       *)
(*   "raised"  an exception left run_with_backoff                          *)
(*   "done"    the loops are over (line 80)                                *)
(***************************************************************************)
UrlPool == <<"https://a.com", "https://b.org", "https://c.net", "https://d.io">>
Devices == {"mobile", "desktop"}

\* Lists without repetition, as line 66 and the multiselect produce them.
Distinct(seq) == \A a, b \in DOMAIN seq : a # b => seq[a] # seq[b]
UrlLists ==
    UNION { { [k \in 1..n |-> UrlPool[k]], [k \in 1..n |-> UrlPool[n + 1 - k]] }
            : n \in 0..MaxUrls }
DeviceLists ==
    { seq \in UNION { [1..n -> Devices] : n \in 0..Cardinality(Devices) } :
        Distinct(seq) }

NoRow == Row("", "", None, None, None, None, None)

InitCommon ==
    /\ max_retries \in 0..MaxRetries
    /\ delay \in 0..MaxDelay
    /\ pc = "idle"
    /\ i = 0 /\ di = 0
    /\ rows = <<>>
    /\ attempt = 0 /\ wait = 0
    /\ ret = NoRow
    /\ calls = 0 /\ sleeps = <<>> /\ hist = <<>>
    /\ pauses = <<>>
    /\ raw = urls

\* A batch: any url list and device selection, one response of each class.
Init ==
    /\ stub = CoarseResponses
    /\ urls \in UrlLists
    /\ devices \in DeviceLists
    /\ InitCommon

\* A single Task: one url, one device, every response.
TaskInit ==
    /\ stub = RichResponses
    /\ urls = <<UrlPool[1]>>
    /\ devices \in { seq \in DeviceLists : Len(seq) = 1 }
    /\ InitCommon

\* A single Task, one status of each class and every body.
FairTaskInit ==
    /\ stub = BodyResponses
    /\ urls = <<UrlPool[1]>>
    /\ devices \in { seq \in DeviceLists : Len(seq) = 1 }
    /\ InitCommon

config == <<stub, urls, devices, max_retries, delay, raw>>
task == <<attempt, wait, ret, calls, sleeps, hist>>

\* Lines 71-73: the button is clicked, the loops start.
ClickRun ==
    /\ pc = "idle"
    /\ rows' = <<>>
    /\ i' = 1 /\ di' = 1
    /\ pc' = "loop"
    /\ pauses' = <<>>
    /\ UNCHANGED <<config, task>>

\* Lines 75-76 with attempt and wait kept from the previous invocation.
EnterTaskKeepState ==
    /\ pc = "loop" /\ i <= Len(urls) /\ di <= Len(devices)
    /\ attempt' = attempt /\ wait' = IF wait = 0 THEN WaitInit ELSE wait
    /\ calls' = 0 /\ sleeps' = <<>> /\ hist' = <<>>
    /\ pc' = "call"
    /\ UNCHANGED <<config, i, di, rows, ret, pauses>>

\* Lines 75-76 and 36: the next pair enters run_with_backoff.
EnterTask ==
    /\ pc = "loop" /\ i <= Len(urls) /\ di <= Len(devices)
    /\ attempt' = 0 /\ wait' = WaitInit
    /\ calls' = 0 /\ sleeps' = <<>> /\ hist' = <<>>
    /\ pc' = "call"
    /\ UNCHANGED <<config, i, di, rows, ret, pauses>>

\* Lines 75, 78, 73: the devices of this url are exhausted, next url.
NextUrl ==
    /\ pc = "loop" /\ i <= Len(urls) /\ di > Len(devices)
    /\ i' = i + 1 /\ di' = 1
    /\ UNCHANGED <<config, pc, rows, task, pauses>>

\* Lines 73, 80: the urls are exhausted.
Finish ==
    /\ pc = "loop" /\ i > Len(urls)
    /\ pc' = "done"
    /\ UNCHANGED <<config, i, di, rows, task, pauses>>

\* Lines 39-51: the client answers r and the try block completes.
ReturnSuccess ==
    /\ pc = "call"
    /\ \E r \in stub :
         LET res == TryBlock(urls[i], devices[di], r)
         IN  /\ ~IsRaise(res)
             /\ calls' = calls + 1 /\ hist' = Append(hist, r)
             /\ ret' = res.v
             /\ pc' = "ret"
    /\ UNCHANGED <<config, i, di, rows, attempt, wait, sleeps, pauses>>

\* Lines 52-55 with a row appended for the failed attempt.
RetryAppendingRow ==
    /\ pc = "call"
    /\ \E r \in stub :
         LET res == TryBlock(urls[i], devices[di], r)
         IN  /\ IsRaise(res) /\ ExceptHTTPError(res.exc)
             /\ ShouldRetry(res.code, attempt, max_retries)
             /\ calls' = calls + 1 /\ hist' = Append(hist, r)
             /\ sleeps' = Append(sleeps, wait)
             /\ wait' = NextWait(wait)
             /\ attempt' = attempt + 1
             /\ rows' = Append(rows, HTTPErrorRow(urls[i], devices[di], res.code))
    /\ UNCHANGED <<config, pc, i, di, ret, pauses>>

\* Lines 52-55 with the retry put off: the loop goes on to the next pair.
RetryDeferred ==
    /\ pc = "call"
    /\ \E r \in stub :
         LET res == TryBlock(urls[i], devices[di], r)
         IN  /\ IsRaise(res) /\ ExceptHTTPError(res.exc)
             /\ ShouldRetry(res.code, attempt, max_retries)
             /\ calls' = calls + 1 /\ hist' = Append(hist, r)
             /\ sleeps' = Append(sleeps, wait)
             /\ wait' = NextWait(wait)
             /\ attempt' = attempt + 1
    /\ di' = di + 1
    /\ pc' = "loop"
    /\ UNCHANGED <<config, i, rows, ret, pauses>>

\* Lines 52-55: HTTPError with a retryable code and budget left.
RetryTransient ==
    /\ pc = "call"
    /\ \E r \in stub :
         LET res == TryBlock(urls[i], devices[di], r)
         IN  /\ IsRaise(res) /\ ExceptHTTPError(res.exc)
             /\ ShouldRetry(res.code, attempt, max_retries)
             /\ calls' = calls + 1 /\ hist' = Append(hist, r)
             /\ sleeps' = Append(sleeps, wait)
             /\ wait' = NextWait(wait)
             /\ attempt' = attempt + 1
    /\ UNCHANGED <<config, pc, i, di, rows, ret, pauses>>

\* Lines 52-57: HTTPError that is not retried.
ReturnHTTPError ==
    /\ pc = "call"
    /\ \E r \in stub :
         LET res == TryBlock(urls[i], devices[di], r)
         IN  /\ IsRaise(res) /\ ExceptHTTPError(res.exc)
             /\ ~ShouldRetry(res.code, attempt, max_retries)
             /\ calls' = calls + 1 /\ hist' = Append(hist, r)
             /\ ret' = HTTPErrorRow(urls[i], devices[di], res.code)
             /\ pc' = "ret"
    /\ UNCHANGED <<config, i, di, rows, attempt, wait, sleeps, pauses>>

\* Lines 58-60: any other exception; one that no clause catches leaves the
\* function.
ReturnRequestFailed ==
    /\ pc = "call"
    /\ \E r \in stub :
         LET res == TryBlock(urls[i], devices[di], r)
         IN  /\ IsRaise(res) /\ ~ExceptHTTPError(res.exc)
             /\ calls' = calls + 1 /\ hist' = Append(hist, r)
             /\ IF ExceptException(res.exc)
                  THEN /\ ret' = RequestFailedRow(urls[i], devices[di], res.exc)
                       /\ pc' = "ret"
                  ELSE /\ ret' = ret
                       /\ pc' = "raised"
    /\ UNCHANGED <<config, i, di, rows, attempt, wait, sleeps, pauses>>

\* Lines 76-77 with a failed pair ending the batch.
AppendRowAbortOnError ==
    /\ pc = "ret"
    /\ rows' = Append(rows, ret)
    /\ pauses' = IF delay > 0 THEN Append(pauses, delay) ELSE pauses
    /\ di' = di + 1
    /\ pc' = IF ret["Performance Score"] = Str("Error") THEN "done" ELSE "loop"
    /\ UNCHANGED <<config, i, task>>

\* Lines 76-77 with the delay slept only between the devices of one url.
AppendRowPauseBetweenDevices ==
    /\ pc = "ret"
    /\ rows' = Append(rows, ret)
    /\ pauses' = IF delay > 0 /\ di < Len(devices)
                 THEN Append(pauses, delay) ELSE pauses
    /\ di' = di + 1
    /\ pc' = "loop"
    /\ UNCHANGED <<config, i, task>>

\* Lines 76-77: the row is appended, then the inter-request delay is slept.
AppendRow ==
    /\ pc = "ret"
    /\ rows' = Append(rows, ret)
    /\ pauses' = IF delay > 0 THEN Append(pauses, delay) ELSE pauses
    /\ di' = di + 1
    /\ pc' = "loop"
    /\ UNCHANGED <<config, i, task>>

Next ==
    \/ ClickRun
    \/ EnterTask
    \/ NextUrl
    \/ Finish
    \/ ReturnSuccess
    \/ RetryTransient
    \/ ReturnHTTPError
    \/ ReturnRequestFailed
    \/ AppendRow

\* A file is uploaded: nothing but the url list is in use.
LoadInit ==
    /\ raw \in LineLists
    /\ urls = <<>>
    /\ pc = "upload"
    /\ stub = {} /\ devices = <<>> /\ max_retries = 0 /\ delay = 0
    /\ i = 0 /\ di = 0
    /\ rows = <<>>
    /\ attempt = 0 /\ wait = 0
    /\ ret = NoRow
    /\ calls = 0 /\ sleeps = <<>> /\ hist = <<>>
    /\ pauses = <<>>

\* Lines 63-67: the url list is computed from the uploaded lines.
LoadUrls ==
    /\ pc \in {"upload", "reupload"}
    /\ urls' = Normalize(raw)
    /\ pc' = IF pc = "upload" THEN "loaded" ELSE "reloaded"
    /\ UNCHANGED <<stub, devices, max_retries, delay, raw, i, di, rows, task, pauses>>

\* Line 12: the list of line 67, one url per line, is uploaded as a file.
Reupload ==
    /\ pc = "loaded"
    /\ raw' = urls
    /\ pc' = "reupload"
    /\ UNCHANGED <<stub, urls, devices, max_retries, delay, i, di, rows, task, pauses>>

LoadNext == LoadUrls \/ Reupload

LoadSpec == LoadInit /\ [][LoadNext]_vars
Spec == Init /\ [][Next]_vars
TaskSpec == TaskInit /\ [][Next]_vars
\* The script is one thread that always runs, and every client call returns.
FairTaskSpec == FairTaskInit /\ [][Next]_vars /\ WF_vars(Next)

(***************************************************************************)
(* Properties.                                                             *)
(***************************************************************************)
Last(seq) == seq[Len(seq)]
IsErrorRow(row) == row["Performance Score"] = Str("Error")
TransientStatus(r) == r.kind = "http" /\ r.status \in TransientCodes
HTTPErrorStatus(r) == r.kind = "http" /\ r.status \in 400..599
Non2xxStatus(r) == r.kind = "http" /\ r.status \notin 200..299
\* The invocation of run_with_backoff that received hist has returned.
Returned == pc \in {"ret", "loop", "done"} /\ hist # <<>>

\* C1: a completed batch run leaves exactly N*M rows, and the row at position
\* i*M+j (0-based) carries urls[i] and devices[j], whatever the responses were;
\* no exception ends the run before.
C1_BatchIsTotal ==
    /\ pc # "raised"
    /\ pc = "done" =>
         /\ Len(rows) = Len(urls) * Len(devices)
         /\ \A a \in 1..Len(urls), b \in 1..Len(devices) :
              LET row == rows[(a - 1) * Len(devices) + b]
              IN  row["URL"] = Str(urls[a]) /\ row["Device"] = Str(devices[b])

\* A completed 2 x 2 batch whose first pair failed and whose last succeeded.
C1_Witness ==
    /\ pc = "done" /\ Len(urls) = 2 /\ Len(devices) = 2 /\ Len(rows) = 4
    /\ max_retries > 0
    /\ IsErrorRow(rows[1]) /\ ~IsErrorRow(rows[4])
    /\ rows[3]["URL"] = Str(urls[2]) /\ rows[3]["Device"] = Str(devices[1])

\* C2: every invocation of run_with_backoff terminates with one returned row,
\* and no exception of the client call or of the parsing leaves it.
C2_TerminatesWithOutcome ==
    /\ [](pc # "raised")
    /\ (pc = "call") ~> (pc = "ret" /\ ret # NoRow)

\* A parsing exception after two retries came back as a row.
C2_Witness ==
    /\ pc = "ret" /\ calls = 3
    /\ ret["FCP"] = Msg("Request failed", 0, "AttributeError")

\* C3: one invocation makes at most max_retries + 1 client calls, and
\* 0 <= attempt <= max_retries always.
C3_AttemptsBounded ==
    /\ calls <= max_retries + 1
    /\ 0 <= attempt /\ attempt <= max_retries
    /\ calls = Len(hist)

\* The whole budget was used.
C3_Witness ==
    pc = "ret" /\ max_retries >= 2 /\ calls = max_retries + 1 /\ attempt = max_retries

\* C4: when every client call of a Task fails with a transient status, the
\* client is called exactly max_retries + 1 times and the row is an Error row.
C4_RetryExhaustion ==
    (Returned /\ \A k \in DOMAIN hist : TransientStatus(hist[k])) =>
        /\ calls = max_retries + 1
        /\ Len(hist) = max_retries + 1
        /\ IsErrorRow(ret)
        /\ ret["FCP"] = Msg("HTTP", Last(hist).status, "HTTPError")

\* Always 503 with max_retries = 2: three calls, then Error.
C4_Witness ==
    /\ pc = "ret" /\ max_retries = 2 /\ calls = 3
    /\ \A k \in DOMAIN hist : hist[k].status = 503
    /\ IsErrorRow(ret)

\* The bodies with a numeric score, and the score round(score * 100) of each.
ScoredBodies == {BodyFull, BodyZero, BodyHalf}
ExpectedScore(body) ==
    CASE body = BodyFull -> 87
      [] body = BodyZero -> 0
      [] body = BodyHalf -> 12

\* C5: k transient failures followed by a success, k <= max_retries, make
\* exactly k + 1 calls, and the row is the success row of the last response.
C5_RetrySuccess ==
    ( /\ Returned
      /\ \A k \in 1..(Len(hist) - 1) : TransientStatus(hist[k])
      /\ Last(hist).kind = "http" /\ Last(hist).status = 200
      /\ Last(hist).body \in ScoredBodies ) =>
        /\ calls = Len(hist)
        /\ Len(hist) - 1 <= max_retries
        /\ ret["Performance Score"] = PyInt(ExpectedScore(Last(hist).body))
        /\ ret["FCP"] = Str("1.2 s") /\ ret["LCP"] = Str("2.5 s")
        /\ ret["TBT"] = Str("150 ms") /\ ret["CLS"] = Str("0.01")

\* 503, 503, then 200 with score 0.87: 87 after three calls.
C5_Witness ==
    /\ pc = "ret" /\ calls = 3
    /\ hist[1].status = 503 /\ hist[2].status = 503
    /\ hist[3] = Http(200, BodyFull)
    /\ ret["Performance Score"] = PyInt(87)

TransportFailure(r) ==
    \/ r.kind = "transport"
    \/ r.kind = "http" /\ r.status \in 200..299 /\ r.body = Undecodable

\* C8: a transport failure ends the invocation at once, without a further
\* call or backoff sleep, in an Error row described by "Request failed: ...".
C8_NoRetryOnTransport ==
    \A k \in DOMAIN hist :
        TransportFailure(hist[k]) =>
            /\ k = Len(hist) /\ calls = k
            /\ pc # "call"
            /\ Len(sleeps) = k - 1
            /\ IsErrorRow(ret)
            /\ ret["FCP"].prefix = "Request failed"

\* A timeout on the second attempt, with budget left.
C8_Witness ==
    /\ pc = "ret" /\ Len(hist) = 2 /\ attempt = 1 /\ max_retries >= 2
    /\ hist[2] = Transport("Timeout")
    /\ ret["FCP"] = Msg("Request failed", 0, "Timeout")

\* C9: the i-th backoff sleep lasts 1.5 * 2^(i-1) s (3 * 2^(i-1) half seconds);
\* each follows a transient failure and precedes a retry, so a returned
\* invocation slept once less than it called.
C9_BackoffTiming ==
    /\ \A k \in DOMAIN sleeps :
         sleeps[k] = 3 * 2 ^ (k - 1) /\ TransientStatus(hist[k])
    /\ pc = "call" => Len(sleeps) = calls /\ wait = 3 * 2 ^ calls
    /\ Returned => Len(sleeps) = calls - 1

\* Three retries slept 1.5 s, 3 s and 6 s.
C9_Witness ==
    pc = "ret" /\ sleeps = <<3, 6, 12>> /\ calls = 4

\* v[k] of a JSON object, None when v is no object or has no such key.
Field(v, k) == IF v.t = "obj" /\ k \in DOMAIN v.f THEN v.f[k] ELSE None
RawScore(r) ==
    Field(Field(Field(Field(r.body, "lighthouseResult"), "categories"),
                "performance"), "score")

\* The score of a response, when it has one and it is a number, is in [0, 1].
ScoreInUnit(r) ==
    r.kind = "http" =>
        LET v == RawScore(r)
        IN  v.t = "num" => (0 <= v.num /\ v.num <= v.den)

IsScore(v) == v.t = "int" /\ v.n \in 0..100

\* C10 (as claimed): with scores in [0, 1], the Performance Score of every
\* row is an integer in 0..100 or "Error".  (One Task: hist is the row's.)
C10_ScoreIsIntOrError ==
    \A k \in DOMAIN rows :
        ScoreInUnit(Last(hist)) =>
            LET v == rows[k]["Performance Score"]
            IN  IsScore(v) \/ v = Str("Error")

\* C10 (amended): ... an integer in 0..100, None, or "Error".
C10_ScoreIsIntNoneOrError ==
    \A k \in DOMAIN rows :
        ScoreInUnit(Last(hist)) =>
            LET v == rows[k]["Performance Score"]
            IN  IsScore(v) \/ v = None \/ v = Str("Error")

\* A response without a score gave a row whose score is None.
C10_Witness ==
    /\ pc = "done" /\ Len(rows) = 1
    /\ Last(hist) = Http(200, BodyNoScore)
    /\ rows[1]["Performance Score"] = None
    /\ rows[1]["FCP"] = Str("1.2 s")
\* The bodies of a successful response that carry no performance score key.
NoScoreBodies == {BodyNoScore, EmptyDict}

\* C11: a successful response without a performance.score key gives a row
\* whose score is None, which is neither "Error" nor 0; a present score of 0
\* gives the integer 0, not None.
C11_MissingScoreIsNone ==
    (Returned /\ Last(hist).kind = "http" /\ Last(hist).status = 200) =>
        /\ Last(hist).body \in NoScoreBodies =>
             /\ ret["Performance Score"] = None
             /\ ret["Performance Score"] # Str("Error")
             /\ ret["Performance Score"] # PyInt(0)
        /\ Last(hist).body = BodyZero =>
             /\ ret["Performance Score"] = PyInt(0)
             /\ ret["Performance Score"] # None

\* A response with score 0, after a retry, gave a row with the integer 0.
C11_Witness ==
    /\ pc = "ret" /\ calls = 2
    /\ Last(hist) = Http(200, BodyZero)
    /\ ret["Performance Score"] = PyInt(0)
\* The JSON object bodies in which optional fields are missing or null.
DegradedBodies ==
    { EmptyDict, BodyError, BodyLhNull, BodyNoScore, BodyScoreNull,
      BodyPerfNull, BodyAuditNull, BodyDisplayNull }

\* The displayValue of an audit of a response, None when it is unavailable.
RawDisplay(r, name) ==
    Field(Field(Field(Field(r.body, "lighthouseResult"), "audits"), name),
          "displayValue")
MetricOrEmpty(v) == IF v = None THEN Str("") ELSE v

\* C12: a 2xx response whose body is a JSON object gives a row that is not an
\* Error row, whichever optional fields are missing or null: each unavailable
\* metric is "" and an unavailable score is None.
C12_GracefulDegradation ==
    ( /\ Returned
      /\ Last(hist).kind = "http" /\ Last(hist).status \in 200..299
      /\ Last(hist).body \in DegradedBodies ) =>
        /\ ~IsErrorRow(ret)
        /\ RawScore(Last(hist)) = None => ret["Performance Score"] = None
        /\ ret["FCP"] = MetricOrEmpty(RawDisplay(Last(hist), FCP))
        /\ ret["LCP"] = MetricOrEmpty(RawDisplay(Last(hist), LCP))
        /\ ret["TBT"] = MetricOrEmpty(RawDisplay(Last(hist), TBT))
        /\ ret["CLS"] = MetricOrEmpty(RawDisplay(Last(hist), CLS))

\* The responses that are failures: a transport failure, an HTTP error status,
\* or a body that is no JSON object or has a score of the wrong type.
MalformedBodies == {Undecodable, JsonList, None, BodyScoreStr}
FailedAttempt(r) ==
    \/ r.kind = "transport"
    \/ HTTPErrorStatus(r)
    \/ r.kind = "http" /\ r.body \in MalformedBodies

\* C13: an Error row carries the url and device of its Task, "Error", a
\* non-empty description in FCP and "" in LCP, TBT and CLS; and a row is an
\* Error row only when the last attempt of its Task failed.
C13_ErrorRowShape ==
    (Returned /\ IsErrorRow(ret)) =>
        /\ ret["URL"] = Str(urls[1]) /\ ret["Device"] = Str(devices[1])
        /\ ret["FCP"].t = "msg"
        /\ ret["FCP"].prefix \in {"HTTP", "Request failed"}
        /\ ret["LCP"] = Str("") /\ ret["TBT"] = Str("") /\ ret["CLS"] = Str("")
        /\ FailedAttempt(Last(hist))
\* The number of pairs that precede the pair (i, di) of the loops.
PairsBefore == (i - 1) * Len(devices) + (di - 1)

\* C14: the Task in progress is the first one without a row: every earlier
\* pair has its row and no later pair has started; a client call is made only
\* for that Task, and a Task starts only when all rows before it are appended.
C14_StrictlySequential ==
    /\ [](pc \in {"call", "ret"} =>
            /\ i \in 1..Len(urls) /\ di \in 1..Len(devices)
            /\ Len(rows) = PairsBefore)
    /\ [](pc = "loop" => Len(rows) = PairsBefore)
    /\ [][calls' # calls =>
            \/ pc = "loop" /\ pc' = "call" /\ calls' = 0 /\ Len(rows) = PairsBefore
            \/ pc = "call" /\ calls' = calls + 1 /\ rows' = rows
                 /\ i' = i /\ di' = di /\ Len(rows) = PairsBefore]_vars

\* The third pair is being retried after the first two got their rows.
C14_Witness ==
    /\ pc = "call" /\ calls >= 1 /\ Len(sleeps) >= 1
    /\ Len(devices) = 2 /\ i = 2 /\ di = 1 /\ Len(rows) = 2
Loaded == pc \in {"loaded", "reloaded"}
\* The lines that are no URL, or a URL of another scheme.
NotUrlLines == {"not a url", "ftp://x.com"}
\* s ends with line
EndsWith(s, line) ==
    Len(s) >= Len(line) /\ SubSeq(s, Len(s) - Len(line) + 1, Len(s)) = line

\* C15: a line that is no URL or has another scheme appears in the url list in
\* no form, so "not a url", "ftp://x.com", "https://valid.com" gives exactly
\* "https://valid.com"; every entry has scheme http or https and a host.
C15_OnlyValidUrls ==
    Loaded =>
        /\ \A k \in DOMAIN urls : is_valid_url(urls[k])
        /\ \A k \in DOMAIN urls, line \in NotUrlLines : ~EndsWith(urls[k], line)
        /\ raw = <<"not a url", "ftp://x.com", "https://valid.com">> =>
             urls = <<"https://valid.com">>

\* C16: the normalizer applied to its own output returns it unchanged.
C16_Idempotent ==
    /\ pc = "reloaded" => urls = raw
    /\ Loaded => Normalize(urls) = urls

\* A list of two urls, made from lines that needed trimming, a scheme and
\* de-duplication, came back unchanged from the second run.
C16_Witness ==
    /\ pc = "reloaded" /\ urls = <<"https://a.com", "http://a.com">>

\* C17: the url list has no two equal entries; the scheme is prepended before
\* duplicates are compared; the entries are in the order of first occurrence.
FirstLine(u) ==
    CHOOSE k \in DOMAIN raw :
        /\ AddScheme(strip(raw[k])) = u
        /\ \A m \in 1..(k - 1) : AddScheme(strip(raw[m])) # u
C17_Deduplicated ==
    Loaded =>
        /\ \A a, b \in DOMAIN urls : a # b => urls[a] # urls[b]
        /\ \A a \in DOMAIN urls : \E k \in DOMAIN raw : AddScheme(strip(raw[k])) = urls[a]
        /\ \A a, b \in DOMAIN urls : a < b => FirstLine(urls[a]) < FirstLine(urls[b])
        /\ "a.com" \in Range(raw) =>
             /\ "a.com" \notin Range(urls)
             /\ Cardinality({ k \in DOMAIN urls : urls[k] = "https://a.com" }) = 1
        /\ raw = <<"a.com", "https://a.com", "a.com">> => urls = <<"https://a.com">>

\* "a.com", "https://a.com", "a.com" collapsed into one entry.
C17_Witness ==
    /\ pc = "loaded" /\ raw = <<"a.com", "https://a.com", "a.com">>
    /\ urls = <<"https://a.com">>
\* C18: the result collection is empty when a run starts; a step leaves it
\* unchanged or appends one row at its end, and only the return of a Task
\* appends, so a retry adds no row; its length is the number of resolved Tasks.
C18_AppendOnly ==
    /\ [][pc = "idle" /\ pc' # "idle" => rows' = <<>>]_vars
    /\ [][pc # "idle" =>
            \/ rows' = rows
            \/ /\ pc = "ret"
               /\ Len(rows') = Len(rows) + 1
               /\ SubSeq(rows', 1, Len(rows)) = rows]_vars
    /\ [][pc = "call" => rows' = rows]_vars
    /\ [](pc \in {"loop", "call", "ret"} => Len(rows) = PairsBefore)
    /\ [](pc = "done" => Len(rows) = Len(urls) * Len(devices))

\* A completed 2 x 2 batch whose last pair was retried twice.
C18_Witness ==
    /\ pc = "done" /\ Len(rows) = 4 /\ calls = 3 /\ Len(sleeps) = 2

\* C19: with delay > 0 the loop sleeps delay once after each appended row,
\* also between the devices of one url, and with delay = 0 it never sleeps;
\* no delay is slept inside a Task, and its length is not the backoff wait.
C19_DelayAfterEachRow ==
    /\ [](delay > 0 =>
            /\ Len(pauses) = Len(rows)
            /\ \A k \in DOMAIN pauses : pauses[k] = delay)
    /\ [](delay = 0 => pauses = <<>>)
    /\ [][pc = "call" => pauses' = pauses]_vars
    /\ [][pauses' # pauses /\ pc # "idle" =>
            pc = "ret" /\ rows' = Append(rows, ret) /\ pauses' = Append(pauses, delay)]_vars

\* The second device of the first url is being retried after one delay.
C19_Witness ==
    /\ pc = "call" /\ delay > 0 /\ i = 1 /\ di = 2 /\ calls >= 1
    /\ Len(rows) = 1 /\ pauses = <<delay>> /\ sleeps = <<3>>

\* The row each response of a batch ends in.
RowOf(url, device, r) ==
    IF r = Http(200, BodyFull)
    THEN Row(url, device, PyInt(87), Str("1.2 s"), Str("2.5 s"), Str("150 ms"),
             Str("0.01"))
    ELSE IF r.kind = "http"
    THEN Row(url, device, Str("Error"), Msg("HTTP", r.status, "HTTPError"),
             Str(""), Str(""), Str(""))
    ELSE Row(url, device, Str("Error"), Msg("Request failed", 0, r.exc),
             Str(""), Str(""), Str(""))

\* C20: every invocation starts with attempt = 0 and wait = 1.5 s whatever the
\* earlier Tasks did, has the whole retry budget, and its row depends only on
\* its url, its device, max_retries and the responses to its own calls.
C20_RetryStatePerTask ==
    /\ [][pc = "loop" /\ pc' = "call" => attempt' = 0 /\ wait' = 3]_vars
    /\ [](pc = "call" => attempt = calls /\ wait = 3 * 2 ^ calls)
    /\ [](pc = "ret" =>
            /\ \A k \in 1..(Len(hist) - 1) : TransientStatus(hist[k])
            /\ TransientStatus(Last(hist)) => Len(hist) = max_retries + 1
            /\ ret = RowOf(urls[i], devices[di], Last(hist)))

\* After a first Task that used its whole budget, the second one used it too.
C20_Witness ==
    /\ pc = "ret" /\ Len(rows) = 1 /\ max_retries >= 2
    /\ rows[1]["FCP"] = Msg("HTTP", 503, "HTTPError")
    /\ calls = max_retries + 1 /\ sleeps[1] = 3
    /\ TransientStatus(Last(hist))
====
